---- MODULE Spec2Model ----
(***************************************************************************)
(* Conversation state machine and capacity check of the LINE reservation   *)
(* bot (src/app.py).  The two SQLite tables are the state; every webhook   *)
(* event (text message, postback) is one action under Spec, and a sequence *)
(* of persistence operations under SpecRace.                               *)
(***************************************************************************)
EXTENDS Integers, Sequences, FiniteSets, Bags, TLC

\* The field names of the records of this module.  TLC orders the fields of a
\* record by the first occurrence of their names in the module; with this
\* list first, every record below is written in that order.
FieldNames ==
    [arg |-> 1, base_datetime |-> 2, count |-> 3, data |-> 4, date |-> 5,
     datetime_obj_iso |-> 6, dt |-> 7, event |-> 8, found |-> 9, head |-> 10,
     hour |-> 11, info |-> 12, insert |-> 13, items |-> 14, kind |-> 15,
     label |-> 16, minute |-> 17, now |-> 18, num_people |-> 19, ok |-> 20,
     pc |-> 21, people |-> 22, reply |-> 23, reservation_datetime |-> 24,
     second |-> 25, state |-> 26, status |-> 27, text |-> 28, user |-> 29,
     user_id |-> 30, write |-> 31]

VARIABLES
    user_states,   \* table user_states: user_id -> [state, data (JSON)]; no row = not in DOMAIN
    reservations,  \* table reservations: rows in id (AUTOINCREMENT) order
    last,          \* the event handled last: who sent what (history)
    reply,         \* messages_to_reply of the event handled last
    trail,         \* per user: the state rows written since the row was last absent (history)
    threads,       \* SpecRace: the bag of handler invocations in flight
    clock,         \* SpecSlots: what datetime.now() returns
    quick_reply,   \* SpecSlots: the quick reply built last, with what it was built from
    set_call       \* SpecStore: the arguments of the set_user_state called last

vars ==
    <<user_states, reservations, last, reply, trail, threads, clock, quick_reply, set_call>>

-----------------------------------------------------------------------------
(* Configuration, src/app.py:38-41.  Times of day are minutes after 00:00. *)

STORE_OPEN_TIME == 600
STORE_CLOSE_TIME == 1320
RESERVATION_INTERVAL_MINUTES == 30
MAX_RESERVATIONS_PER_SLOT == 2

-----------------------------------------------------------------------------
(* The users who send events.                                              *)

Users == {"u1", "u2"}

(***************************************************************************)
(* An ISO-8601 string is the tuple of its numeric fields:                  *)
(*   <<date>>, <<date, hh, mm>> or <<date, hh, mm, ss>>;                    *)
(* the date field stands for the ten characters YYYY-MM-DD before the 'T'. *)
(* A datetime object is a record [date, hour, minute, second].             *)
(***************************************************************************)

\* datetime.fromisoformat accepts a date alone (midnight), and a time with
\* or without seconds; anything else raises ValueError.
IsoParses(iso) ==
    /\ Len(iso) \in {1, 3, 4}
    /\ Len(iso) >= 3 => (iso[2] \in 0..23 /\ iso[3] \in 0..59)
    /\ Len(iso) = 4 => iso[4] \in 0..59

fromisoformat(iso) ==
    [date   |-> iso[1],
     hour   |-> IF Len(iso) >= 3 THEN iso[2] ELSE 0,
     minute |-> IF Len(iso) >= 3 THEN iso[3] ELSE 0,
     second |-> IF Len(iso) = 4 THEN iso[4] ELSE 0]

\* datetime.isoformat(): always date, 'T', hh:mm:ss (microsecond is 0).
isoformat(dt) == <<dt.date, dt.hour, dt.minute, dt.second>>

\* iso.split('T')[0]
DatePart(iso) == SubSeq(iso, 1, 1)

\* SQL: value LIKE prefix || '%'
Like(value, prefix) ==
    /\ Len(value) >= Len(prefix)
    /\ SubSeq(value, 1, Len(prefix)) = prefix

-----------------------------------------------------------------------------
(* user_data: the keys "datetime_obj_iso" and "people".  The code reads    *)
(* them with .get() and tests truthiness, so an absent key is the falsy    *)
(* value of its type: the empty string, and 0.                             *)

NoIso == <<>>
NoPeople == 0
EmptyData == [datetime_obj_iso |-> NoIso, people |-> NoPeople]

None == [data |-> EmptyData, found |-> FALSE, state |-> "None"]

\* The column data holds a JSON text, or NULL.  A JSON text is the object it
\* spells: the mapping from the keys it names to their values ("{}" is the
\* mapping of no key).
Null == <<>>
Text(json) == <<json>>

Keys(data) ==
    (IF data.datetime_obj_iso # NoIso THEN {"datetime_obj_iso"} ELSE {})
        \cup (IF data.people # NoPeople THEN {"people"} ELSE {})

\* Mutant: the text is cut after its first key.
json_dumps_FirstKey(data) ==
    [k \in Keys(data) \ (IF Cardinality(Keys(data)) = 2 THEN {"people"} ELSE {}) |->
        data[k]]

\* json.dumps(data): the keys the mapping has, with their values.
json_dumps(data) == [k \in Keys(data) |-> data[k]]

\* json.loads(json); a key the text does not name is absent from the mapping.
json_loads(json) ==
    [datetime_obj_iso |->
        IF "datetime_obj_iso" \in DOMAIN json THEN json["datetime_obj_iso"] ELSE NoIso,
     people |-> IF "people" \in DOMAIN json THEN json["people"] ELSE NoPeople]

\* json.loads(row["data"]) if row["data"] else {}
get_user_state(us, user_id) ==
    IF user_id \in DOMAIN us
    THEN [data |-> IF us[user_id].data # Null
                   THEN json_loads(us[user_id].data[1])
                   ELSE EmptyData,
          found |-> TRUE, state |-> us[user_id].state]
    ELSE None


\* INSERT ... ON CONFLICT(user_id) DO UPDATE, of the JSON text of data (every
\* caller passes a mapping, so data is not None).
set_user_state(us, user_id, state, data) ==
    [u \in DOMAIN us \cup {user_id} |->
        IF u = user_id THEN [data |-> Text(json_dumps(data)), state |-> state]
        ELSE us[u]]

\* Mutant: the DELETE is never committed.
delete_user_state_Noop(us, user_id) == us

delete_user_state(us, user_id) ==
    [u \in DOMAIN us \ {user_id} |-> us[u]]

-----------------------------------------------------------------------------
(* Reservations.                                                           *)

\* Mutant: the row keeps the date and drops the time of day.
NewRow_DateOnly(user_id, dt, num_people) ==
    [num_people |-> num_people, reservation_datetime |-> <<dt.date, 0, 0, 0>>,
     status |-> "confirmed", user_id |-> user_id]

NewRow(user_id, dt, num_people) ==
    [num_people |-> num_people, reservation_datetime |-> isoformat(dt),
     status |-> "confirmed", user_id |-> user_id]

\* Mutant: the INSERT replaces the rows the user has (one booking per user).
create_reservation_Upsert(res, user_id, dt, num_people, ok) ==
    LET Others(row) == row.user_id # user_id
    IN  IF ok THEN Append(SelectSeq(res, Others), NewRow(user_id, dt, num_people))
        ELSE res

\* ok = FALSE: the INSERT raised sqlite3.Error, which is logged; no row.
create_reservation(res, user_id, dt, num_people, ok) ==
    IF ok THEN Append(res, NewRow(user_id, dt, num_people)) ELSE res

\* Mutant: the query matches the whole timestamp, not the date prefix.
count_reservations_for_datetime_Exact(res, dt) ==
    Cardinality({i \in 1..Len(res) :
        /\ Like(res[i].reservation_datetime, isoformat(dt))
        /\ res[i].status = "confirmed"})

count_reservations_for_datetime(res, dt) ==
    Cardinality({i \in 1..Len(res) :
        /\ Like(res[i].reservation_datetime, DatePart(isoformat(dt)))
        /\ res[i].status = "confirmed"})

\* Mutant: the comparison is off by one.
SlotIsFull_OffByOne(count) == count > MAX_RESERVATIONS_PER_SLOT

SlotIsFull(count) == count >= MAX_RESERVATIONS_PER_SLOT

\* datetime.time(): the time of day, here in seconds after 00:00:00.
TimeOfDay(dt) == (dt.hour * 60 + dt.minute) * 60 + dt.second

is_store_open(dt) ==
    /\ STORE_OPEN_TIME * 60 <= TimeOfDay(dt)
    /\ TimeOfDay(dt) < STORE_CLOSE_TIME * 60

is_valid_reservation_minute(dt) ==
    dt.minute % RESERVATION_INTERVAL_MINUTES = 0

-----------------------------------------------------------------------------
(* Events.  A text is its characters; a postback payload is split at '|'   *)
(* into its first token and the tokens after it.                           *)

\* The keyword that starts a booking (the two characters U+4E88 U+7D04 in
\* the source, written here in Latin letters); text.lower() leaves it as it is.
ReserveText == "yoyaku"

Texts == {ReserveText, "abc", "0", "1", "10", "11"}

\* int(text): the value, for the texts that parse; ValueError otherwise.
IntTexts == {"0", "1", "10", "11"}
int(text) == CASE text = "0" -> 0 [] text = "1" -> 1
               [] text = "10" -> 10 [] text = "11" -> 11

\* Mutant: the lower limit is 0.
PeopleInRange_FromZero(num_people) == 0 <= num_people /\ num_people <= 10

\* Mutant: the upper limit is not tested.
PeopleInRange_NoUpper(num_people) == 1 <= num_people

PeopleInRange(num_people) == 1 <= num_people /\ num_people <= 10

SelectTime(iso) == [arg |-> <<iso>>, head |-> "select_time"]
ConfirmYes == [arg |-> <<>>, head |-> "confirm_yes"]
ConfirmNo == [arg |-> <<>>, head |-> "confirm_no"]
OtherPayload == [arg |-> <<>>, head |-> "other"]
NoPayload == [arg |-> <<>>, head |-> ""]

\* Timestamps a client can send: a slot, a time that is no slot on the
\* same date, a slot on another date written without seconds, and a
\* string that is no timestamp.
SlotA == <<1, 10, 0, 0>>
OffSlotA == <<1, 3, 17, 0>>
SlotB == <<2, 10, 0>>
BadIso == <<2, 25, 0>>
IsoInputs == {SlotA, OffSlotA, SlotB, BadIso}

Payloads == {SelectTime(iso) : iso \in IsoInputs}
              \cup {ConfirmYes, ConfirmNo, OtherPayload}

\* What each user sends.  The first user sends everything; the second is a
\* competitor for the first slot, who books it for one person.
TextsOf(user_id) ==
    IF user_id = "u1" THEN Texts ELSE {ReserveText, "1"}
PayloadsOf(user_id) ==
    IF user_id = "u1" THEN Payloads ELSE {SelectTime(SlotA), ConfirmYes, ConfirmNo}

\* postback_data.startswith("select_time|")
IsSelectTime(data) == data.head = "select_time" /\ Len(data.arg) >= 1

TextEvent(user_id, text) ==
    [data |-> NoPayload, kind |-> "text", ok |-> TRUE, text |-> text, user |-> user_id]
PostbackEvent(user_id, data, ok) ==
    [data |-> data, kind |-> "postback", ok |-> ok, text |-> "", user |-> user_id]
NoEvent == [data |-> NoPayload, kind |-> "none", ok |-> TRUE, text |-> "", user |-> ""]

-----------------------------------------------------------------------------
(* The handlers.  A handler first reads the user's row (info), and in two  *)
(* branches counts the reservations of a date; what it does then is its    *)
(* plan: at most one INSERT into reservations, then at most one write of   *)
(* the user's row, then the reply.  count is the answer the handler gets   *)
(* from count_reservations_for_datetime in those two branches.             *)

Plan(write, state, data, insert, msgs) ==
    [data |-> data, insert |-> insert, reply |-> msgs, state |-> state, write |-> write]

ReplyOnly(msgs) == Plan("none", "", EmptyData, <<>>, msgs)
SetState(state, data, msgs) == Plan("set", state, data, <<>>, msgs)
DeleteState(msgs) == Plan("delete", "", EmptyData, <<>>, msgs)

\* not user_data.get("datetime_obj_iso") or not user_data.get("people")
DataMissing(user_data) ==
    user_data.datetime_obj_iso = NoIso \/ user_data.people = NoPeople

\* Mutant: the party size is stored in a fresh mapping.
WithPeople_Fresh(user_data, num_people) == [EmptyData EXCEPT !.people = num_people]

\* user_data["people"] = num_people
WithPeople(user_data, num_people) == [user_data EXCEPT !.people = num_people]

\* user_data["datetime_obj_iso"] = selected_dt.isoformat()
WithDatetime(user_data, selected_dt) ==
    [user_data EXCEPT !.datetime_obj_iso = isoformat(selected_dt)]

\* Mutant: a time may be picked again while the party size is asked.
ExpectsTime_OrPeople(current_state) ==
    current_state \in {"ASKING_TIME", "ASKING_PEOPLE"}

\* current_state != "ASKING_TIME", negated
ExpectsTime(current_state) == current_state = "ASKING_TIME"

\* Mutant: the reserve keyword stores the data read instead of {}.
handle_text_message_KeepsData(info, text) ==
    LET current_state == info.state
        user_data == info.data
    IN  IF text = ReserveText
        THEN SetState("ASKING_TIME", user_data, <<"ASK_TIME">>)
        ELSE IF current_state = "ASKING_PEOPLE"
        THEN IF text \in IntTexts /\ PeopleInRange(int(text))
             THEN SetState("CONFIRMING_RESERVATION",
                           WithPeople(user_data, int(text)),
                           <<"CONFIRM_PROMPT">>)
             ELSE ReplyOnly(<<"PEOPLE_ERROR">>)
        ELSE ReplyOnly(<<"FALLBACK">>)

handle_text_message(info, text) ==
    LET current_state == info.state
        user_data == info.data
    IN  IF text = ReserveText
        THEN SetState("ASKING_TIME", EmptyData, <<"ASK_TIME">>)
        ELSE IF current_state = "ASKING_PEOPLE"
        THEN IF text \in IntTexts /\ PeopleInRange(int(text))
             THEN SetState("CONFIRMING_RESERVATION",
                           WithPeople(user_data, int(text)),
                           <<"CONFIRM_PROMPT">>)
             ELSE ReplyOnly(<<"PEOPLE_ERROR">>)
        ELSE ReplyOnly(<<"FALLBACK">>)

\* The select_time branch in state ASKING_TIME (the try statement).
SelectTimeBranch(user_data, iso_str, count) ==
    IF ~IsoParses(iso_str)
    THEN ReplyOnly(<<"TIME_ERROR">>)
    ELSE LET selected_dt == fromisoformat(iso_str)
             body ==
               IF SlotIsFull(count)
               THEN ReplyOnly(<<"FULL", "ASK_TIME_AGAIN">>)
               ELSE SetState("ASKING_PEOPLE",
                             WithDatetime(user_data, selected_dt),
                             <<"ASK_PEOPLE">>)
         IN  \* the else clause of the try runs when nothing was raised
             [body EXCEPT !.reply = Append(@, "NO_DATETIME")]

\* Mutant: the state is deleted when create_reservation fails, too.
ConfirmYesBranch_ClearsOnError(user_id, user_data, ok, count) ==
    IF DataMissing(user_data)
    THEN DeleteState(<<"DATA_MISSING">>)
    ELSE LET dt_obj == fromisoformat(user_data.datetime_obj_iso)
             num_people == user_data.people
             num_existing_reservations == count
             call == <<[dt |-> dt_obj, num_people |-> num_people, user_id |-> user_id]>>
         IN  IF SlotIsFull(num_existing_reservations)
             THEN DeleteState(<<"FULL_AT_CONFIRM">>)
             ELSE IF ok
             THEN [DeleteState(<<"THANKS">>) EXCEPT !.insert = call]
             ELSE [DeleteState(<<"INSERT_ERROR">>) EXCEPT !.insert = call]

\* The confirm_yes branch in state CONFIRMING_RESERVATION; ok is what
\* create_reservation returns when it is called.
ConfirmYesBranch(user_id, user_data, ok, count) ==
    IF DataMissing(user_data)
    THEN DeleteState(<<"DATA_MISSING">>)
    ELSE LET dt_obj == fromisoformat(user_data.datetime_obj_iso)
             num_people == user_data.people
             num_existing_reservations == count
             call == <<[dt |-> dt_obj, num_people |-> num_people, user_id |-> user_id]>>
         IN  IF SlotIsFull(num_existing_reservations)
             THEN DeleteState(<<"FULL_AT_CONFIRM">>)
             ELSE IF ok
             THEN [DeleteState(<<"THANKS">>) EXCEPT !.insert = call]
             ELSE [ReplyOnly(<<"INSERT_ERROR">>) EXCEPT !.insert = call]

\* Mutant: a postback that matches no branch is answered with the fallback
\* of the text handler.
NoTransition_Fallback == ReplyOnly(<<"FALLBACK">>)

\* No branch of handle_postback matched: messages_to_reply stays empty and
\* nothing is sent.
NoTransition == ReplyOnly(<<>>)

\* Mutant: confirm_no cancels whatever the state is.
handle_postback_CancelsAnywhere(info, user_id, postback_data, ok, count) ==
    LET current_state == info.state
        user_data == info.data
    IN  IF IsSelectTime(postback_data)
        THEN IF ~ExpectsTime(current_state)
             THEN DeleteState(<<"UNEXPECTED">>)
             ELSE SelectTimeBranch(user_data, postback_data.arg[1], count)
        ELSE IF postback_data = ConfirmYes /\ current_state = "CONFIRMING_RESERVATION"
        THEN ConfirmYesBranch(user_id, user_data, ok, count)
        ELSE IF postback_data = ConfirmNo
        THEN DeleteState(<<"CANCELLED">>)
        ELSE NoTransition

handle_postback(info, user_id, postback_data, ok, count) ==
    LET current_state == info.state
        user_data == info.data
    IN  IF IsSelectTime(postback_data)
        THEN IF ~ExpectsTime(current_state)
             THEN DeleteState(<<"UNEXPECTED">>)
             ELSE SelectTimeBranch(user_data, postback_data.arg[1], count)
        ELSE IF postback_data = ConfirmYes /\ current_state = "CONFIRMING_RESERVATION"
        THEN ConfirmYesBranch(user_id, user_data, ok, count)
        ELSE IF postback_data = ConfirmNo /\ current_state = "CONFIRMING_RESERVATION"
        THEN DeleteState(<<"CANCELLED">>)
        ELSE NoTransition

\* The datetimes a postback handler passes to count_reservations_for_datetime.
QueriedDatetimes(info, postback_data) ==
    IF /\ IsSelectTime(postback_data)
       /\ info.state = "ASKING_TIME"
       /\ IsoParses(postback_data.arg[1])
    THEN {fromisoformat(postback_data.arg[1])}
    ELSE IF /\ postback_data = ConfirmYes
            /\ info.state = "CONFIRMING_RESERVATION"
            /\ ~DataMissing(info.data)
    THEN {fromisoformat(info.data.datetime_obj_iso)}
    ELSE {}

\* The plan of the handler of an event, from the row it read.
PlanOf(event, info, count) ==
    IF event.kind = "text"
    THEN handle_text_message(info, event.text)
    ELSE handle_postback(info, event.user, event.data, event.ok, count)

\* The datetimes the handler of an event queries, from the row it read.
Queries(event, info) ==
    IF event.kind = "postback" THEN QueriedDatetimes(info, event.data) ELSE {}

\* The plan's write of the user's row.
ApplyWrite(us, user_id, plan) ==
    CASE plan.write = "set" -> set_user_state(us, user_id, plan.state, plan.data)
      [] plan.write = "delete" -> delete_user_state(us, user_id)
      [] OTHER -> us

\* The plan's call of create_reservation.
ApplyInsert(res, plan, ok) ==
    IF plan.insert = <<>> THEN res
    ELSE create_reservation(res, plan.insert[1].user_id, plan.insert[1].dt,
                            plan.insert[1].num_people, ok)

-----------------------------------------------------------------------------
(* History: the rows written for a user since the row was last absent or   *)
(* restarted, each with the event that wrote it.                           *)

NextTrail(tr, event, plan) ==
    LET entry == [event |-> event, state |-> plan.state]
    IN  [tr EXCEPT ![event.user] =
            CASE plan.write = "delete" -> <<>>
              [] plan.write = "set" ->
                    IF plan.state = "ASKING_TIME" THEN <<entry>> ELSE Append(@, entry)
              [] OTHER -> @]

-----------------------------------------------------------------------------
(* The time selection.  Datetimes are compared and added to as seconds     *)
(* since 00:00:00 of date 0; a microsecond of the clock counts as a second. *)

SecondsPerDay == 24 * 60 * 60
ToSeconds(dt) == dt.date * SecondsPerDay + TimeOfDay(dt)
FromSeconds(s) ==
    [date   |-> s \div SecondsPerDay,
     hour   |-> (s % SecondsPerDay) \div 3600,
     minute |-> (s % 3600) \div 60,
     second |-> s % 60]

\* timedelta(minutes=m), in seconds
timedelta(minutes) == minutes * 60

\* dt + delta
Plus(dt, delta) == FromSeconds(ToSeconds(dt) + delta)

\* a < b on datetimes
Before(a, b) == ToSeconds(a) < ToSeconds(b)

\* datetime.combine(date, time), the time in minutes after 00:00
combine(date, time) ==
    [date |-> date, hour |-> time \div 60, minute |-> time % 60, second |-> 0]

\* base_datetime=None, and a base_datetime that is given
NoBase == <<>>
Base(dt) == <<dt>>

\* QuickReplyItem(action=PostbackAction(label=HH:MM, data=select_time|iso))
QuickReplyItem(current) ==
    [data |-> SelectTime(isoformat(current)), label |-> <<current.hour, current.minute>>]

\* Mutant: a slot exactly 30 minutes ahead is offered too.
Offerable_Inclusive(current, now) == ~Before(current, Plus(now, timedelta(30)))

\* current > now + timedelta(minutes=30)
Offerable(current, now) == Before(Plus(now, timedelta(30)), current)

\* The while loop: items is the list built so far.
RECURSIVE SlotLoop(_, _, _, _)
SlotLoop(current, end, now, items) ==
    IF ~Before(current, end) THEN items
    ELSE SlotLoop(Plus(current, timedelta(RESERVATION_INTERVAL_MINUTES)), end, now,
                  IF Offerable(current, now)
                  THEN Append(items, QuickReplyItem(current))
                  ELSE items)

\* first and now are the two readings of datetime.now(): the default of
\* base_datetime, and the moment the slots are compared with.
create_time_selection_quick_reply(base_datetime, first, now) ==
    LET base == IF base_datetime = NoBase THEN first ELSE base_datetime[1]
        date == base.date
    IN  SlotLoop(combine(date, STORE_OPEN_TIME), combine(date, STORE_CLOSE_TIME),
                 now, <<>>)

\* The readings of the clock: on two dates, around every half hour.
Clock ==
    {[date |-> d, hour |-> h, minute |-> m, second |-> sec] :
        d \in {1, 2}, h \in 0..23, m \in {0, 29, 30, 59}, sec \in {0, 1, 59}}

\* The dates a caller asks the slots of.
BaseInputs == {NoBase} \cup {Base(combine(d, 0)) : d \in {1, 2}}

ClockStart == combine(1, 0)
NoQuickReply == [base_datetime |-> NoBase, items |-> <<>>, now |-> ClockStart]

-----------------------------------------------------------------------------
(* Spec: every event is handled atomically.                                *)

NoRows == <<>>
NoCall == [data |-> EmptyData, found |-> FALSE, state |-> "", user_id |-> ""]
NoUserStates == [u \in {} |-> None]
\* Handler invocations that can be in flight at once under SpecRace.
NumThreads == 2

Init ==
    /\ user_states = NoUserStates
    /\ reservations = NoRows
    /\ last = NoEvent
    /\ reply = <<>>
    /\ trail = [u \in Users |-> <<>>]
    /\ threads = EmptyBag
    /\ clock = ClockStart
    /\ quick_reply = NoQuickReply
    /\ set_call = NoCall

\* The count a handler is given when it runs on the table res.
CountSeen(event, info, res) ==
    IF Queries(event, info) = {} THEN 0
    ELSE count_reservations_for_datetime(res, CHOOSE dt \in Queries(event, info) : TRUE)

\* The handler of an event, run from its first line to its last.
RunHandler(event, us, res) ==
    PlanOf(event, get_user_state(us, event.user),
           CountSeen(event, get_user_state(us, event.user), res))

Handled(event) ==
    \E plan \in {RunHandler(event, user_states, reservations)} :
        /\ reservations' = ApplyInsert(reservations, plan, event.ok)
        /\ user_states' = ApplyWrite(user_states, event.user, plan)
        /\ reply' = plan.reply
        /\ last' = event
        /\ trail' = NextTrail(trail, event, plan)
        /\ UNCHANGED <<threads, clock, quick_reply, set_call>>

HandleText ==
    \E u \in Users : \E text \in TextsOf(u) :
        Handled(TextEvent(u, text))

\* The outcome of the INSERT is an input only where an INSERT can run.
InsertOutcomes(data) == IF data = ConfirmYes THEN BOOLEAN ELSE {TRUE}

HandlePostback ==
    \E u \in Users : \E data \in PayloadsOf(u) :
        \E ok \in InsertOutcomes(data) :
            Handled(PostbackEvent(u, data, ok))

Next == HandleText \/ HandlePostback

Spec == Init /\ [][Next]_vars

-----------------------------------------------------------------------------
(* SpecRace: handler invocations run concurrently, and interleave at their *)
(* persistence operations.  A thread's pc names the operation it runs      *)
(* next; the code between two operations belongs to the earlier one.  A    *)
(* thread that ends sends ThreadPlan(th).reply; last, reply and trail      *)
(* record the events handled under Spec only.                              *)

\* What a user sends under SpecRace: the booking of the first slot for one
\* person, and its confirmation.
RaceEvents(user_id) ==
    {TextEvent(user_id, ReserveText), TextEvent(user_id, "1"),
     PostbackEvent(user_id, SelectTime(SlotA), TRUE),
     PostbackEvent(user_id, ConfirmYes, TRUE)}

\* The plan of a thread: from the row it read and the count it was given.
ThreadPlan(th) == PlanOf(th.event, th.info, th.count)

ThreadQueries(th) == Queries(th.event, th.info)

\* The operation that follows the operation `done` in the handler.
NextPc(th, done) ==
    IF done = "load" /\ ThreadQueries(th) # {} THEN "count"
    ELSE IF done \in {"load", "count"} /\ ThreadPlan(th).insert # <<>> THEN "insert"
    ELSE IF done \in {"load", "count", "insert"} /\ ThreadPlan(th).write # "none"
    THEN "write"
    ELSE "idle"

\* The thread `was` (none, when an event arrives) has run `done` and is now
\* th: it goes on, or replies and ends.
Proceed(was, th, done) ==
    \E pc \in {NextPc(th, done)} :
        IF pc = "idle"
        THEN threads' = threads (-) SetToBag(was)
        ELSE threads' = (threads (-) SetToBag(was)) (+) SetToBag({[th EXCEPT !.pc = pc]})

\* An event arrives and its handler reads the user's row.
Receive ==
    /\ BagCardinality(threads) < NumThreads
    /\ \E u \in Users : \E event \in RaceEvents(u) :
          Proceed({}, [count |-> 0, event |-> event,
                       info |-> get_user_state(user_states, u), pc |-> "load"], "load")
    /\ UNCHANGED <<user_states, reservations, last, reply, trail, clock, quick_reply, set_call>>

RunCount(th) ==
    /\ th.pc = "count"
    /\ \E dt \in ThreadQueries(th) :
          Proceed({th}, [th EXCEPT !.count =
                            count_reservations_for_datetime(reservations, dt)], "count")
    /\ UNCHANGED <<user_states, reservations, last, reply, trail, clock, quick_reply, set_call>>

RunInsert(th) ==
    /\ th.pc = "insert"
    /\ reservations' = ApplyInsert(reservations, ThreadPlan(th), th.event.ok)
    /\ Proceed({th}, th, "insert")
    /\ UNCHANGED <<user_states, last, reply, trail, clock, quick_reply, set_call>>

RunWrite(th) ==
    /\ th.pc = "write"
    /\ user_states' = ApplyWrite(user_states, th.event.user, ThreadPlan(th))
    /\ Proceed({th}, th, "write")
    /\ UNCHANGED <<reservations, last, reply, trail, clock, quick_reply, set_call>>

CountStep == \E th \in BagToSet(threads) : RunCount(th)
InsertStep == \E th \in BagToSet(threads) : RunInsert(th)
WriteStep == \E th \in BagToSet(threads) : RunWrite(th)

NextRace == Receive \/ CountStep \/ InsertStep \/ WriteStep

SpecRace == Init /\ [][NextRace]_vars

-----------------------------------------------------------------------------
(* SpecSlots: the time selection is built at any reading of the clock, for *)
(* today (no base_datetime) or for a given date.  Between the two readings *)
(* of a call the clock may advance by a second, from a reading of Clock.   *)

InitSlots ==
    /\ user_states = NoUserStates
    /\ reservations = NoRows
    /\ last = NoEvent
    /\ reply = <<>>
    /\ trail = [u \in Users |-> <<>>]
    /\ threads = EmptyBag
    /\ clock \in Clock
    /\ quick_reply = NoQuickReply
    /\ set_call = NoCall

BuildQuickReply ==
    \E base_datetime \in BaseInputs :
    \E now \in {clock} \cup (IF clock \in Clock THEN {Plus(clock, 1)} ELSE {}) :
        /\ quick_reply' =
              [base_datetime |-> IF base_datetime = NoBase THEN Base(clock)
                                 ELSE base_datetime,
               items |-> create_time_selection_quick_reply(base_datetime, clock, now),
               now |-> now]
        /\ clock' = now
        /\ UNCHANGED <<user_states, reservations, last, reply, trail, threads, set_call>>

NextSlots == BuildQuickReply

SpecSlots == InitSlots /\ [][NextSlots]_vars

-----------------------------------------------------------------------------
(* SpecStore: the state table under any calls of set_user_state and        *)
(* delete_user_state.  set_call records the arguments of the               *)
(* set_user_state called last, and whether the user had a row; a delete    *)
(* clears it.                                                              *)

StateInputs == {"ASKING_TIME", "ASKING_PEOPLE", "CONFIRMING_RESERVATION"}

DataInputs ==
    {[datetime_obj_iso |-> iso, people |-> people] :
        iso \in {NoIso, isoformat(fromisoformat(SlotA))}, people \in {NoPeople, 3}}

SetUserState ==
    \E u \in Users, state \in StateInputs, data \in DataInputs :
        /\ user_states' = set_user_state(user_states, u, state, data)
        /\ set_call' = [data |-> data, found |-> u \in DOMAIN user_states,
                    state |-> state, user_id |-> u]
        /\ UNCHANGED <<reservations, last, reply, trail, threads, clock, quick_reply>>

DeleteUserState ==
    \E u \in DOMAIN user_states :
        /\ user_states' = delete_user_state(user_states, u)
        /\ set_call' = NoCall
        /\ UNCHANGED <<reservations, last, reply, trail, threads, clock, quick_reply>>

NextStore == SetUserState \/ DeleteUserState

SpecStore == Init /\ [][NextStore]_vars

-----------------------------------------------------------------------------
(* Vocabulary of the properties.                                           *)

Dates == {1, 2}

StateOf(us, user_id) == IF user_id \in DOMAIN us THEN us[user_id].state ELSE "None"

\* The data and the row of a user, as get_user_state reads them.
DataOf(us, user_id) == get_user_state(us, user_id).data
RowOf(us, user_id) == [data |-> DataOf(us, user_id), state |-> StateOf(us, user_id)]

DateOf(iso) == fromisoformat(iso).date

\* The confirmed reservations on a calendar date, at any time of the day.
ConfirmedOnDate(res, date) ==
    Cardinality({i \in 1..Len(res) :
        DateOf(res[i].reservation_datetime) = date /\ res[i].status = "confirmed"})

\* The confirmed reservations at one timestamp.
ConfirmedAt(res, iso) ==
    Cardinality({i \in 1..Len(res) :
        res[i].reservation_datetime = iso /\ res[i].status = "confirmed"})

\* This step handled a confirm_yes of user u, who was in CONFIRMING_RESERVATION
\* with a stored datetime.
ConfirmYesStep(u) ==
    /\ last'.kind = "postback" /\ last'.user = u /\ last'.data = ConfirmYes
    /\ StateOf(user_states, u) = "CONFIRMING_RESERVATION"
    /\ DataOf(user_states, u).datetime_obj_iso # NoIso

\* This step handled a text of user u, who was in ASKING_PEOPLE.
PeopleTextStep(u) ==
    /\ last'.kind = "text" /\ last'.user = u
    /\ StateOf(user_states, u) = "ASKING_PEOPLE"

NotAPartySize(text) == text \notin IntTexts \/ int(text) < 1 \/ int(text) > 10

-----------------------------------------------------------------------------
(* Properties.                                                             *)

C3_InsertOnStaleCount ==
    /\ \A th \in BagToSet(threads) :
          th.pc = "insert" => th.count < MAX_RESERVATIONS_PER_SLOT
    /\ \A d \in Dates :
          ConfirmedOnDate(reservations, d) <= MAX_RESERVATIONS_PER_SLOT + NumThreads - 1

\* C3 witness: the confirmations of two different users for the same date have
\* both inserted, and the date holds more than the maximum.
C3_Witness ==
    /\ ConfirmedOnDate(reservations, 1) > MAX_RESERVATIONS_PER_SLOT
    /\ reservations[Len(reservations)].user_id
          # reservations[Len(reservations) - 1].user_id

\* C4 (as claimed): every stored reservation is at a slot: within opening
\* hours and on a multiple of the interval.
C4_RowsAreSlots ==
    \A i \in 1..Len(reservations) :
        /\ is_store_open(fromisoformat(reservations[i].reservation_datetime))
        /\ is_valid_reservation_minute(fromisoformat(reservations[i].reservation_datetime))

\* C5 (as claimed): in ASKING_PEOPLE, every text that is no integer in 1..10
\* leaves the user's row as it is and creates no reservation.
C5_AnyBadTextKeepsState ==
    [][\A u \in Users : (PeopleTextStep(u) /\ NotAPartySize(last'.text)) =>
        /\ u \in DOMAIN user_states' /\ user_states'[u] = user_states[u]
        /\ reservations' = reservations
    ]_vars

\* C5 (amended): in ASKING_PEOPLE, every text other than the reserve keyword
\* that is no integer in 1..10 leaves the user's row as it is (state
\* ASKING_PEOPLE, same data), creates no reservation and is answered with the
\* input error.
C5_BadPartySizeKeepsState ==
    [][\A u \in Users :
        (PeopleTextStep(u) /\ NotAPartySize(last'.text) /\ last'.text # ReserveText) =>
            /\ user_states' = user_states
            /\ reservations' = reservations
            /\ reply' = <<"PEOPLE_ERROR">>
    ]_vars

\* C5 witness: a party size above the maximum was refused and the user is
\* still asked for the party size.
C5_Witness ==
    /\ last.kind = "text" /\ last.text = "11"
    /\ reply = <<"PEOPLE_ERROR">>
    /\ StateOf(user_states, last.user) = "ASKING_PEOPLE"

\* C6: in ASKING_PEOPLE, a text that is an integer n in 1..10 moves the user
\* to CONFIRMING_RESERVATION with the data it had plus people = n (the stored
\* datetime is kept), changes no other user's row and creates no reservation.
C6_PartySizeAccepted ==
    [][\A u \in Users : (PeopleTextStep(u) /\ ~NotAPartySize(last'.text)) =>
        /\ DOMAIN user_states' = DOMAIN user_states
        /\ RowOf(user_states', u) =
              [data |-> [datetime_obj_iso |-> DataOf(user_states, u).datetime_obj_iso,
                         people |-> int(last'.text)],
               state |-> "CONFIRMING_RESERVATION"]
        /\ \A v \in DOMAIN user_states \ {u} : user_states'[v] = user_states[v]
        /\ DataOf(user_states, u).datetime_obj_iso # NoIso
        /\ reservations' = reservations
    ]_vars

\* C6 witness: the largest party size was accepted for a stored datetime.
C6_Witness ==
    /\ last.kind = "text" /\ last.text = "10"
    /\ StateOf(user_states, last.user) = "CONFIRMING_RESERVATION"
    /\ DataOf(user_states, last.user).people = 10
    /\ DataOf(user_states, last.user).datetime_obj_iso = isoformat(fromisoformat(SlotB))

\* The flow of user u up to the confirmation prompt: the reserve text, a
\* select_time for T that was accepted, a party size text.
FlowTrail(u, T, text) ==
    <<[event |-> TextEvent(u, ReserveText), state |-> "ASKING_TIME"],
      [event |-> PostbackEvent(u, SelectTime(T), TRUE), state |-> "ASKING_PEOPLE"],
      [event |-> TextEvent(u, text), state |-> "CONFIRMING_RESERVATION"]>>

\* The step of confirm_yes ends the flow with exactly one new row for u, T, n.
FlowEnds(u) ==
    \E T \in IsoInputs, text \in Texts :
        /\ IsoParses(T) /\ ~NotAPartySize(text)
        /\ trail[u] = FlowTrail(u, T, text)
        /\ reservations' = Append(reservations,
              [num_people |-> int(text),
               reservation_datetime |-> isoformat(fromisoformat(T)),
               status |-> "confirmed", user_id |-> u])
        /\ u \notin DOMAIN user_states'

HasCapacityAtConfirm(u) ==
    ConfirmedOnDate(reservations, DateOf(DataOf(user_states, u).datetime_obj_iso))
        < MAX_RESERVATIONS_PER_SLOT

C8_SelectTimeOutOfTurn ==
    [][\A u \in Users :
        (/\ last'.kind = "postback" /\ last'.user = u /\ IsSelectTime(last'.data)
         /\ StateOf(user_states, u) # "ASKING_TIME") =>
            /\ user_states' = [v \in DOMAIN user_states \ {u} |-> user_states[v]]
            /\ reply' = <<"UNEXPECTED">>
            /\ reservations' = reservations
    ]_vars

\* C8 witness: a select_time was refused as unexpected and left the sender
\* without a row, while the other user keeps a row.
C8_Witness ==
    /\ last.kind = "postback" /\ IsSelectTime(last.data)
    /\ reply = <<"UNEXPECTED">>
    /\ last.user \notin DOMAIN user_states
    /\ DOMAIN user_states # {}

ConfirmYesInState(u) ==
    /\ last'.kind = "postback" /\ last'.user = u /\ last'.data = ConfirmYes
    /\ StateOf(user_states, u) = "CONFIRMING_RESERVATION"

\* C10 (as claimed): whatever the outcome, a confirm_yes handled in
\* CONFIRMING_RESERVATION leaves the user without a state row.
C10_ConfirmYesAlwaysClears ==
    [][\A u \in Users : ConfirmYesInState(u) => u \notin DOMAIN user_states']_vars

\* The INSERT of the confirmation of u runs: the data is complete and the
\* date has capacity.
InsertRuns(u) ==
    /\ DataOf(user_states, u).datetime_obj_iso # NoIso
    /\ DataOf(user_states, u).people # NoPeople
    /\ HasCapacityAtConfirm(u)

\* C10 (amended): a confirm_yes handled in CONFIRMING_RESERVATION deletes the
\* user's row, except when the INSERT runs and fails with a storage error:
\* then the row stays as it is (CONFIRMING_RESERVATION, same data).
C10_ConfirmYesClearsUnlessInsertFails ==
    [][\A u \in Users : ConfirmYesInState(u) =>
        IF InsertRuns(u) /\ ~last'.ok
        THEN user_states' = user_states /\ reply' = <<"INSERT_ERROR">>
        ELSE user_states' = [v \in DOMAIN user_states \ {u} |-> user_states[v]]
    ]_vars

\* C10 witness: a confirmation was handled and its user has no row, while
\* the other user is still in CONFIRMING_RESERVATION.
C10_Witness ==
    /\ last.kind = "postback" /\ last.data = ConfirmYes
    /\ reply \in {<<"THANKS">>, <<"FULL_AT_CONFIRM">>}
    /\ last.user \notin DOMAIN user_states
    /\ \E v \in DOMAIN user_states : user_states[v].state = "CONFIRMING_RESERVATION"

\* This step handled a confirm_no of user u right after the confirm_no of u
\* that cancelled the booking in CONFIRMING_RESERVATION and cleared the state.
RepeatedConfirmNo(u) ==
    /\ last = PostbackEvent(u, ConfirmNo, TRUE) /\ reply = <<"CANCELLED">>
    /\ last' = PostbackEvent(u, ConfirmNo, TRUE)

SlotsOfDate(date) ==
    {combine(date, STORE_OPEN_TIME + k * RESERVATION_INTERVAL_MINUTES) : k \in
        {k \in 0..47 :
            STORE_OPEN_TIME + k * RESERVATION_INTERVAL_MINUTES < STORE_CLOSE_TIME}}

C13_RowsOnlyAppendedByConfirmYes ==
    [][/\ Len(reservations') \in {Len(reservations), Len(reservations) + 1}
       /\ SubSeq(reservations', 1, Len(reservations)) = reservations
       /\ reservations' # reservations =>
             /\ last'.kind = "postback" /\ last'.data = ConfirmYes
             /\ StateOf(user_states, last'.user) = "CONFIRMING_RESERVATION"
             /\ reservations'[Len(reservations')].user_id = last'.user
       /\ (last'.kind = "postback" /\ last'.data = ConfirmNo) =>
             reservations' = reservations
    ]_vars

\* C13 witness: a user who holds a reservation has cancelled a second
\* booking, and the reservation is still stored.
C13_Witness ==
    /\ last.kind = "postback" /\ last.data = ConfirmNo
    /\ reply = <<"CANCELLED">>
    /\ \E i \in 1..Len(reservations) : reservations[i].user_id = last.user

\* C14: every stored reservation has a party size from 1 to 10 and the status
\* confirmed.
C14_RowsHavePartySizeAndStatus ==
    \A i \in 1..Len(reservations) :
        /\ reservations[i].num_people \in 1..10
        /\ reservations[i].status = "confirmed"

\* C14 witness: reservations for the smallest and for the largest party size
\* are stored, after a party size of 11 was refused.
C14_Witness ==
    /\ \E i \in 1..Len(reservations) : reservations[i].num_people = 1
    /\ \E i \in 1..Len(reservations) : reservations[i].num_people = 10
    /\ last.kind = "text" /\ last.text = "11" /\ reply = <<"PEOPLE_ERROR">>

\* C15: the reserve text, from a user in any state or in none, leaves the user
\* in ASKING_TIME with empty data (a datetime and a party size stored before
\* are gone), is answered with the time selection, and changes neither the
\* other users' rows nor the reservations.
C15_ReserveRestarts ==
    [][\A u \in Users : last' = TextEvent(u, ReserveText) =>
        /\ DOMAIN user_states' = DOMAIN user_states \cup {u}
        /\ RowOf(user_states', u) =
              [data |-> [datetime_obj_iso |-> NoIso, people |-> NoPeople],
               state |-> "ASKING_TIME"]
        /\ \A v \in DOMAIN user_states \ {u} : user_states'[v] = user_states[v]
        /\ reply' = <<"ASK_TIME">>
        /\ reservations' = reservations
    ]_vars

\* C15 witness: a user whose reservation is stored has sent the reserve text
\* and is in ASKING_TIME with empty data, while the other user's booking in
\* progress keeps its data.
C15_Witness ==
    /\ last = TextEvent("u1", ReserveText)
    /\ StateOf(user_states, "u1") = "ASKING_TIME"
    /\ DataOf(user_states, "u1") = EmptyData
    /\ \E i \in 1..Len(reservations) : reservations[i].user_id = "u1"
    /\ StateOf(user_states, "u2") = "CONFIRMING_RESERVATION"

C17_InsertFailureKeepsBooking ==
    [][\A u \in Users :
        /\ (ConfirmYesInState(u) /\ InsertRuns(u) /\ ~last'.ok) =>
              /\ reservations' = reservations
              /\ reply' = <<"INSERT_ERROR">>
              /\ user_states' = user_states
              /\ StateOf(user_states', u) = "CONFIRMING_RESERVATION"
        /\ (/\ last = PostbackEvent(u, ConfirmYes, FALSE) /\ reply = <<"INSERT_ERROR">>
            /\ last' = PostbackEvent(u, ConfirmYes, TRUE)) =>
              /\ reservations' = Append(reservations,
                    [num_people |-> DataOf(user_states, u).people,
                     reservation_datetime |-> DataOf(user_states, u).datetime_obj_iso,
                     status |-> "confirmed", user_id |-> u])
              /\ reply' = <<"THANKS">>
              /\ u \notin DOMAIN user_states'
    ]_vars

\* C17 witness: the INSERT of a confirmation has failed while the date had
\* room next to a stored reservation; the user is still in
\* CONFIRMING_RESERVATION with the datetime and the party size.
C17_Witness ==
    /\ last = PostbackEvent("u1", ConfirmYes, FALSE)
    /\ reply = <<"INSERT_ERROR">>
    /\ RowOf(user_states, "u1") =
          [data |-> [datetime_obj_iso |-> isoformat(fromisoformat(SlotA)), people |-> 10],
           state |-> "CONFIRMING_RESERVATION"]
    /\ ConfirmedOnDate(reservations, 1) = MAX_RESERVATIONS_PER_SLOT - 1

\* C18: an event that matches no transition changes no state row and no
\* reservation: a text other than the reserve keyword from a user who is not
\* in ASKING_PEOPLE (answered with the fallback), a confirm_yes or confirm_no
\* from a user who is not in CONFIRMING_RESERVATION, and a postback with an
\* unknown payload in any state (both answered with nothing).
C18_NoTransitionChangesNothing ==
    [][\A u \in Users : last'.user = u =>
        /\ (/\ last'.kind = "text" /\ last'.text # ReserveText
            /\ StateOf(user_states, u) # "ASKING_PEOPLE") =>
              /\ user_states' = user_states /\ reservations' = reservations
              /\ reply' = <<"FALLBACK">>
        /\ (/\ last'.kind = "postback" /\ last'.data \in {ConfirmYes, ConfirmNo}
            /\ StateOf(user_states, u) # "CONFIRMING_RESERVATION") =>
              /\ user_states' = user_states /\ reservations' = reservations
              /\ reply' = <<>>
        /\ (/\ last'.kind = "postback" /\ ~IsSelectTime(last'.data)
            /\ last'.data \notin {ConfirmYes, ConfirmNo}) =>
              /\ user_states' = user_states /\ reservations' = reservations
              /\ reply' = <<>>
    ]_vars

\* C18 witness: a postback with an unknown payload was handled for a user in
\* the middle of a booking, whose row is still there with its data.
C18_Witness ==
    /\ last = PostbackEvent("u1", OtherPayload, TRUE)
    /\ reply = <<>>
    /\ RowOf(user_states, "u1") =
          [data |-> [datetime_obj_iso |-> isoformat(fromisoformat(SlotB)), people |-> 1],
           state |-> "CONFIRMING_RESERVATION"]

\* C19 (as claimed): for a select_time handled in ASKING_TIME, the reply has
\* the 'no datetime was selected' message only when the timestamp did not
\* parse; when it parses and the date has room the reply is the party-size
\* prompt alone, and when the date is full it is the 'fully booked' message
\* followed by the time selection.
C19_NoDatetimeOnlyWhenUnparsed ==
    [][\A u \in Users :
        (/\ last'.kind = "postback" /\ last'.user = u /\ IsSelectTime(last'.data)
         /\ StateOf(user_states, u) = "ASKING_TIME") =>
            LET T == last'.data.arg[1]
            IN  /\ (\E i \in 1..Len(reply') : reply'[i] = "NO_DATETIME") => ~IsoParses(T)
                /\ IsoParses(T) =>
                      IF ConfirmedOnDate(reservations, DateOf(T)) >= MAX_RESERVATIONS_PER_SLOT
                      THEN reply' = <<"FULL", "ASK_TIME_AGAIN">>
                      ELSE reply' = <<"ASK_PEOPLE">>
    ]_vars

\* The data a row of this state has to hold.
Complete(state, data) ==
    /\ state = "ASKING_PEOPLE" => data.datetime_obj_iso # NoIso
    /\ state = "CONFIRMING_RESERVATION" =>
          data.datetime_obj_iso # NoIso /\ data.people \in 1..10

\* C20: with handlers interleaved, also for the same user, every row in
\* ASKING_PEOPLE holds a datetime and every row in CONFIRMING_RESERVATION
\* holds a datetime and a party size from 1 to 10; so does every row a handler
\* in flight has read, and no handler takes the 'reservation data missing'
\* branch of confirm_yes.
C20_DataComplete ==
    /\ \A u \in DOMAIN user_states :
          Complete(StateOf(user_states, u), DataOf(user_states, u))
    /\ \A th \in BagToSet(threads) :
          /\ Complete(th.info.state, th.info.data)
          /\ \A i \in 1..Len(ThreadPlan(th).reply) :
                ThreadPlan(th).reply[i] # "DATA_MISSING"

\* C20 witness: a user is in CONFIRMING_RESERVATION with complete data while
\* two handlers for that user are in flight: a confirm_yes about to insert
\* and a reserve text about to overwrite the row.
C20_Witness ==
    /\ StateOf(user_states, "u1") = "CONFIRMING_RESERVATION"
    /\ DataOf(user_states, "u1").people = 1
    /\ \E th \in BagToSet(threads) :
          th.event = PostbackEvent("u1", ConfirmYes, TRUE) /\ th.pc = "insert"
    /\ \E th \in BagToSet(threads) :
          th.event = TextEvent("u1", ReserveText) /\ th.pc = "write"

====
